---- MODULE Spec2Model ----
(***************************************************************************)
(* Clio (roqcodes/Clio): the clio.executeCommand workflow of               *)
(* src/src/extension.js.                                                   *)
(*                                                                         *)
(* One workflow instance per invocation of the command.  A workflow is an  *)
(* async function: it runs on the extension host's event loop and is       *)
(* suspended at three awaits (showInputBox, generateCommands/exec,         *)
(* showQuickPick).  Each action below is one run-to-completion job of the  *)
(* event loop: the delivery of the awaited result together with all the    *)
(* code that runs until the next await or the end of the function.         *)
(*                                                                         *)
(* Strings are sequences of chunks; the strings the code parses (labels,   *)
(* command texts, queries) are sequences of single characters.             *)
(***************************************************************************)
EXTENDS Integers, Sequences, FiniteSets, TLC

(***************************************************************************)
(* Bounds of the model.                                                    *)
(***************************************************************************)
NumInv == 2          \* invocations of clio.executeCommand (they may overlap)
LongLen == 11        \* longest commands list in SpecLabel (two-digit indices)
MaxPickLong == 2     \* most entries picked from one list in SpecLabel

Inv == 1..NumInv

(***************************************************************************)
(* JavaScript values.                                                      *)
(***************************************************************************)
Undefined == [kind |-> "undefined"]
Str(s) == [kind |-> "string", value |-> s]
Arr(a) == [kind |-> "array", value |-> a]
Num(n) == [kind |-> "number", value |-> n]
NaN == [kind |-> "NaN"]

\* ToBoolean: what `!x` and `if (x)` test.
Truthy(v) ==
    CASE v.kind = "undefined" -> FALSE
      [] v.kind = "NaN"       -> FALSE
      [] v.kind = "string"    -> v.value # <<>>
      [] v.kind = "number"    -> v.value # 0
      [] OTHER                -> TRUE

\* Template-literal conversion `${v}`.
StringOf(v) ==
    CASE v.kind = "string"    -> v.value
      [] v.kind = "undefined" -> <<"undefined">>
      [] OTHER                -> <<"[object]">>

(***************************************************************************)
(* Decimal text of a non-negative integer, as `${index + 1}` renders it.   *)
(***************************************************************************)
DigitChars == <<"0", "1", "2", "3", "4", "5", "6", "7", "8", "9">>

\* Mutant of Digits: only the last digit is rendered.
DigitsLastOnly(n) == <<DigitChars[(n % 10) + 1]>>

RECURSIVE Digits(_)
Digits(n) ==
    IF n < 10 THEN <<DigitChars[n + 1]>>
    ELSE Digits(n \div 10) \o <<DigitChars[(n % 10) + 1]>>

IsDigit(c) == \E d \in 1..10 : DigitChars[d] = c
DigitVal(c) == (CHOOSE d \in 1..10 : DigitChars[d] = c) - 1

\* String.prototype.split(sep)[0]: the text before the first sep (all of it
\* when sep does not occur).
SplitFirst(s, sep) ==
    IF \E k \in 1..Len(s) : s[k] = sep
    THEN SubSeq(s, 1, (CHOOSE k \in 1..Len(s) :
                          s[k] = sep /\ \A j \in 1..(k - 1) : s[j] # sep) - 1)
    ELSE s

RECURSIVE DigitsValue(_, _)
DigitsValue(s, acc) ==
    IF s = <<>> \/ ~IsDigit(Head(s)) THEN acc
    ELSE DigitsValue(Tail(s), 10 * acc + DigitVal(Head(s)))

RECURSIVE SkipSpaces(_)
SkipSpaces(s) == IF s # <<>> /\ Head(s) = " " THEN SkipSpaces(Tail(s)) ELSE s

\* parseInt(s): leading white space skipped, an optional sign, then the longest
\* run of decimal digits; NaN when there is no digit.
ParseInt(s) ==
    LET t == SkipSpaces(s)
        neg == t # <<>> /\ Head(t) = "-"
        u == IF t # <<>> /\ Head(t) \in {"-", "+"} THEN Tail(t) ELSE t
    IN  IF u = <<>> \/ ~IsDigit(Head(u)) THEN NaN
        ELSE Num((IF neg THEN -1 ELSE 1) * DigitsValue(u, 0))

\* x - 1 on a JavaScript number.
Minus1(v) == IF v.kind = "number" THEN Num(v.value - 1) ELSE NaN

\* arr[index]: undefined outside 0 .. length-1 and for NaN.
ArrayGet(a, idx) ==
    IF idx.kind = "number" /\ idx.value >= 0 /\ idx.value < Len(a)
    THEN a[idx.value + 1]
    ELSE Undefined

(***************************************************************************)
(* What the environment can hand to the workflow.                          *)
(***************************************************************************)
\* showInputBox resolves to undefined (dismissed) or to the text typed.
QueryInputs == {Undefined, Str(<<>>), Str(<<" ">>), Str(<<"l", "s">>)}

\* CommandCandidate objects of the generator's output.  A command text is a
\* sequence of chunks in which every ':' , digit and blank that matters to the
\* parsing of a label is a chunk of its own.
DockerPs == [command |-> <<"docker ps -a">>,
             description |-> <<"List all containers">>,
             safety_level |-> <<"safe">>]
SevenZip == [command |-> <<"7", "z a b", ":", "1", "c">>,
             description |-> <<"Archive b:1c">>,
             safety_level |-> <<"caution">>]

\* Two families of commands lists, one list of each length per family; the
\* second family repeats a command text at different positions.
ListA(n) == [k \in 1..n |-> IF k % 2 = 1 THEN DockerPs ELSE SevenZip]
ListB(n) == [k \in 1..n |-> IF k % 3 = 0 THEN DockerPs ELSE SevenZip]
Lists(n) == {ListA(k) : k \in 0..n} \cup {ListB(k) : k \in 0..n}
ShortLists == {<<>>, ListA(1), ListB(1), ListA(2), ListB(2)}

NoCommandFound == <<"No Command Found">>
ErrorValues == {Str(NoCommandFound), Str(<<"API key invalid">>), Str(<<>>)}

\* Parsed JSON documents: a field that is absent reads as undefined.
Doc(e, c) == [error |-> e, commands |-> c]
Docs ==
    {Doc(e, c) : e \in ErrorValues, c \in {Undefined, Arr(ListA(1))}}
    \cup {Doc(Undefined, Undefined)}
    \cup {Doc(Undefined, Arr(l)) : l \in ShortLists}

\* Documents whose commands lists are long enough for two-digit indices.
LongDocs == {Doc(Undefined, Arr(l)) : l \in Lists(LongLen)}

\* Standard output: text that is no JSON, or the JSON text of a document.
RawText(t) == [json |-> FALSE, text |-> t]
JsonText(d) == [json |-> TRUE, doc |-> d]
Stdouts(docs) == {RawText(<<"oops">>)} \cup {JsonText(d) : d \in docs}

ExitCodes == {0, 1, 2}
Stderrs == {<<"network timeout">>}

\* What child_process.exec hands to its callback when the process has exited.
ExecResults(docs) == [code : ExitCodes, stdout : Stdouts(docs), stderr : Stderrs]

\* Sequences of distinct positions of 1..n, at most m long.
Picks(n, m) ==
    {p \in UNION {[1..k -> 1..n] : k \in 0..(IF m < n THEN m ELSE n)} :
        \A a, b \in 1..Len(p) : a # b => p[a] # p[b]}

\* showQuickPick with canPickMany resolves to undefined (dismissed) or to an
\* array of the picked items, in an order the host chooses: the items at the
\* positions p of the list shown.
ItemsAt(opts, p) == Arr([k \in 1..Len(p) |-> opts[p[k]]])

(***************************************************************************)
(* Pure parts of the code.                                                 *)
(***************************************************************************)
\* path.join(context.extensionPath, 'clio.py')
ScriptPath == <<"/ext", "/", "clio.py">>

\* `python "${scriptPath}" "${query}" --json-only`
CommandLine(scriptPath, query) ==
    <<"python", " ", "\"">> \o scriptPath \o <<"\"", " ", "\"">> \o query
        \o <<"\"", " ", "--json-only">>

\* exec's error argument: null when the exit status is 0, else an Error with
\* the exit status as code and the command and stderr in its message.
Null == [kind |-> "null"]
ExecError(cmd, r) ==
    IF r.code = 0 THEN Null
    ELSE [kind |-> "Error", code |-> r.code,
          message |-> <<"Command failed: ">> \o cmd \o <<"\n">> \o r.stderr]

JSONparse(stdout) ==
    IF stdout.json THEN [ok |-> TRUE, value |-> stdout.doc] ELSE [ok |-> FALSE]

Resolved(v) == [status |-> "resolved", value |-> v]
Rejected(m) == [status |-> "rejected", message |-> m]

\* Mutant of generateCommands: every exec error rejects, exit status 1 too.
generateCommandsAnyError(scriptPath, query, r) ==
    LET error == ExecError(CommandLine(scriptPath, query), r)
    IN  IF error # Null THEN Rejected(error.message)
        ELSE LET p == JSONparse(r.stdout)
             IN  IF p.ok THEN Resolved(p.value)
                 ELSE Rejected(<<"Failed to parse response: ">> \o r.stdout.text)

\* Mutant of generateCommands: a parse failure rejects with the parser's own
\* error, which does not carry the output.
generateCommandsRejectsSyntaxError(scriptPath, query, r) ==
    LET error == ExecError(CommandLine(scriptPath, query), r)
    IN  IF error # Null /\ error.code # 1 THEN Rejected(error.message)
        ELSE LET p == JSONparse(r.stdout)
             IN  IF p.ok THEN Resolved(p.value)
                 ELSE Rejected(<<"Unexpected token in JSON at position 0">>)

\* generateCommands: how the promise settles once the process has exited.
generateCommands(scriptPath, query, r) ==
    LET error == ExecError(CommandLine(scriptPath, query), r)
    IN  IF error # Null /\ error.code # 1 THEN Rejected(error.message)
        ELSE LET p == JSONparse(r.stdout)
             IN  IF p.ok THEN Resolved(p.value)
                 ELSE Rejected(<<"Failed to parse response: ">> \o r.stdout.text)

\* Mutant of NoQuery: only a dismissed input box ends the workflow.
NoQueryUndefinedOnly(q) == q = Undefined

\* `!query`
NoQuery(q) == ~Truthy(q)

\* Mutant of IsNoCommandFound: the sentinel is compared in another spelling.
IsNoCommandFoundMisspelt(cmds) == cmds.error = Str(<<"No command found">>)

\* `commands.error === "No Command Found"`
IsNoCommandFound(cmds) == cmds.error = Str(NoCommandFound)

\* Mutant of HasError: a misspelt field is read, which no output has.
HasErrorMisspelt(cmds) == FALSE

\* `commands.error`
HasError(cmds) == Truthy(cmds.error)

\* Mutant of NoCommands: only an absent list counts, an empty one does not.
NoCommandsAbsentOnly(cmds) == ~Truthy(cmds.commands)

\* `!commands.commands || commands.commands.length === 0`
NoCommands(cmds) == ~Truthy(cmds.commands) \/ Len(cmds.commands.value) = 0

\* `!selectedCommands || selectedCommands.length === 0`
NothingSelected(sel) == ~Truthy(sel) \/ Len(sel.value) = 0

\* Mutant of Label: the entries are numbered from 0.
LabelZeroBased(index, cmd) == Digits(index) \o <<":", " ">> \o cmd.command

\* `${index + 1}: ${cmd.command}` (index is 0-based)
Label(index, cmd) == Digits(index + 1) \o <<":", " ">> \o cmd.command

\* commands.commands.map(...)
Options(cmds) ==
    [k \in 1..Len(cmds) |->
        [label |-> Label(k - 1, cmds[k]),
         description |-> cmds[k].description,
         detail |-> <<"Safety: ">> \o cmds[k].safety_level]]

\* Mutant of SelectedIndex: the 1-based number is used as the index.
SelectedIndexOneBased(selected) == ParseInt(SplitFirst(selected.label, ":"))

\* parseInt(selected.label.split(':')[0]) - 1
SelectedIndex(selected) == Minus1(ParseInt(SplitFirst(selected.label, ":")))

TypeErrorMessage == <<"Cannot read properties of undefined (reading 'command')">>

\* Mutant of SendLoop: the label shown is submitted instead of the command.
RECURSIVE SendLoopLabel(_, _, _)
SendLoopLabel(selected, cmds, done) ==
    IF selected = <<>> THEN [texts |-> done, threw |-> FALSE, returned |-> FALSE]
    ELSE LET index == Minus1(ParseInt(SplitFirst(Head(selected).label, ":")))
             c == ArrayGet(cmds, index)
         IN  IF c = Undefined THEN [texts |-> done, threw |-> TRUE, returned |-> FALSE]
             ELSE SendLoopLabel(Tail(selected), cmds,
                     Append(done, [index |-> index.value, text |-> Head(selected).label]))

\* The for loop over selectedCommands: the texts handed to sendText, in order,
\* and whether reading .command of a missing element threw.
RECURSIVE SendLoop(_, _, _)
SendLoop(selected, cmds, done) ==
    IF selected = <<>> THEN [texts |-> done, threw |-> FALSE, returned |-> FALSE]
    ELSE LET index == SelectedIndex(Head(selected))
             c == ArrayGet(cmds, index)
         IN  IF c = Undefined THEN [texts |-> done, threw |-> TRUE, returned |-> FALSE]
             ELSE SendLoop(Tail(selected), cmds,
                           Append(done, [index |-> index.value, text |-> c.command]))

\* Mutant of Dispatch: no early return, so that iterating a dismissed prompt's
\* undefined result throws.
DispatchNoGuard(sel, cmds) ==
    IF ~Truthy(sel) THEN [texts |-> <<>>, threw |-> TRUE, returned |-> FALSE]
    ELSE [texts |-> [k \in 1..Len(sel.value) |->
                        LET index == Minus1(ParseInt(SplitFirst(sel.value[k].label, ":")))
                        IN  [index |-> index.value, text |-> cmds[index.value + 1].command]],
          threw |-> FALSE, returned |-> FALSE]

\* Mutant of Dispatch: an empty selection runs every command of the list.
DispatchAllWhenEmpty(sel, cmds) ==
    IF ~Truthy(sel) THEN [texts |-> <<>>, threw |-> FALSE, returned |-> TRUE]
    ELSE IF Len(sel.value) = 0
    THEN [texts |-> [k \in 1..Len(cmds) |-> [index |-> k - 1, text |-> cmds[k].command]],
          threw |-> FALSE, returned |-> FALSE]
    ELSE [texts |-> [k \in 1..Len(sel.value) |->
                        LET index == Minus1(ParseInt(SplitFirst(sel.value[k].label, ":")))
                        IN  [index |-> index.value, text |-> cmds[index.value + 1].command]],
          threw |-> FALSE, returned |-> FALSE]

\* What follows the prompt: the early return when nothing is selected, else
\* the loop.
Dispatch(sel, cmds) ==
    IF NothingSelected(sel) THEN [texts |-> <<>>, threw |-> FALSE, returned |-> TRUE]
    ELSE SendLoop(sel.value, cmds, <<>>)

(***************************************************************************)
(* State.                                                                  *)
(***************************************************************************)
VARIABLES
    pc,             \* per invocation: the await it is suspended at, or where it ended
    query,          \* per invocation: the local `query`
    commands,       \* per invocation: the local `commands` (the parsed document)
    options,        \* per invocation: the local `options`
    terminal,       \* per invocation: the local `terminal` (a handle, 0 = none)
    child,          \* per invocation: the command line of its running generator
    terminals,      \* host: the open terminals
    activeTerminal, \* vscode.window.activeTerminal as the extension reads it (0 = undefined)
    focused,        \* host: the terminal in the foreground of the window (0 = none)
    nextTerm,       \* host: the handle the next created terminal gets
    sent,           \* host: every text given to sendText, in order
    calls,          \* per invocation: the host API calls it has made, in order
    last            \* the result most recently delivered to a workflow

vars == <<pc, query, commands, options, terminal, child, terminals, activeTerminal,
          focused, nextTerm, sent, calls, last>>

Call(api, arg) == [api |-> api, arg |-> arg]

\* Mutant of Caught: the catch clause swallows the error.
CaughtSilently(message) == <<>>

\* The catch clause: showErrorMessage(`Error: ${error.message}`).
Caught(message) == << Call("showErrorMessage", <<"Error: ">> \o message) >>

\* Mutant of SendTarget: the loop sends to whatever terminal is active now.
SendTargetActive(i) == activeTerminal

\* The handle the loop calls sendText on: the local `terminal`.  (A handle
\* whose terminal the user has closed still takes the call.)
SendTarget(i) == terminal[i]

Init ==
    /\ pc = [i \in Inv |-> "start"]
    /\ query = [i \in Inv |-> Undefined]
    /\ commands = [i \in Inv |-> Undefined]
    /\ options = [i \in Inv |-> <<>>]
    /\ terminal = [i \in Inv |-> 0]
    /\ child = [i \in Inv |-> <<>>]
    /\ terminals = {}
    /\ activeTerminal = 0
    /\ focused = 0
    /\ nextTerm = 1
    /\ sent = <<>>
    /\ calls = [i \in Inv |-> <<>>]
    /\ last = [inv |-> 0, api |-> "activate", result |-> Undefined]

\* The workflow function returns (or its catch clause has run): its locals go
\* out of scope.
Finish(i, where, made) ==
    /\ pc' = [pc EXCEPT ![i] = where]
    /\ calls' = [calls EXCEPT ![i] = @ \o made]
    /\ query' = [query EXCEPT ![i] = Undefined]
    /\ commands' = [commands EXCEPT ![i] = Undefined]
    /\ options' = [options EXCEPT ![i] = <<>>]
    /\ terminal' = [terminal EXCEPT ![i] = 0]
    /\ child' = [child EXCEPT ![i] = <<>>]

\* The user runs clio.executeCommand: the input box opens.
executeCommand(i) ==
    /\ pc[i] = "start"
    /\ pc' = [pc EXCEPT ![i] = "showInputBox"]
    /\ calls' = [calls EXCEPT ![i] = Append(@, Call("showInputBox", <<>>))]
    /\ last' = [inv |-> i, api |-> "executeCommand", result |-> Undefined]
    /\ UNCHANGED <<query, commands, options, terminal, child, terminals,
                   activeTerminal, focused, nextTerm, sent>>

\* The input box resolves: `if (!query) return`, else the progress indicator
\* is shown and generateCommands spawns the generator.
afterInputBox(i, inputs) ==
    /\ pc[i] = "showInputBox"
    /\ \E q \in inputs :
          /\ last' = [inv |-> i, api |-> "showInputBox", result |-> q]
          /\ IF NoQuery(q)
             THEN Finish(i, "return22", <<>>)
             ELSE /\ pc' = [pc EXCEPT ![i] = "exec"]
                  /\ query' = [query EXCEPT ![i] = q]
                  /\ calls' = [calls EXCEPT ![i] = @ \o
                        << Call("withProgress", <<"AI CLI">>),
                           Call("progress.report", <<"Generating commands...">>),
                           Call("exec", <<>>) >>]
                  /\ child' = [child EXCEPT ![i] = CommandLine(ScriptPath, q.value)]
                  /\ UNCHANGED <<commands, options, terminal>>
    /\ UNCHANGED <<terminals, activeTerminal, focused, nextTerm, sent>>

\* The generator has exited: generateCommands settles and the workflow runs on
\* to a notice, or to the terminal and the multi-select prompt.  terminal.show
\* puts the terminal in the foreground; the extension's activeTerminal follows
\* when the host reports it, which is at once when `reported` holds and by a
\* later acceptActiveTerminalChanged otherwise.
afterGenerate(i, results, reported) ==
    /\ pc[i] = "exec"
    /\ \E r \in results :
          LET g == generateCommands(ScriptPath, query[i].value, r)
              cmds == g.value
          IN
          /\ last' = [inv |-> i, api |-> "exec", result |-> r]
          /\ IF g.status = "rejected"
             THEN /\ Finish(i, "catch83", Caught(g.message))
                  /\ UNCHANGED <<terminals, activeTerminal, focused, nextTerm>>
             ELSE IF IsNoCommandFound(cmds)
             THEN /\ Finish(i, "return41",
                        << Call("showInformationMessage", NoCommandFound) >>)
                  /\ UNCHANGED <<terminals, activeTerminal, focused, nextTerm>>
             ELSE IF HasError(cmds)
             THEN /\ Finish(i, "return46",
                        << Call("showErrorMessage",
                                <<"Error: ">> \o StringOf(cmds.error)) >>)
                  /\ UNCHANGED <<terminals, activeTerminal, focused, nextTerm>>
             ELSE IF NoCommands(cmds)
             THEN /\ Finish(i, "return51",
                        << Call("showInformationMessage", <<"No commands generated">>) >>)
                  /\ UNCHANGED <<terminals, activeTerminal, focused, nextTerm>>
             ELSE LET create == activeTerminal = 0
                      t == IF create THEN nextTerm ELSE activeTerminal
                      opts == Options(cmds.commands.value)
                  IN  /\ pc' = [pc EXCEPT ![i] = "showQuickPick"]
                      /\ commands' = [commands EXCEPT ![i] = cmds]
                      /\ options' = [options EXCEPT ![i] = opts]
                      /\ terminal' = [terminal EXCEPT ![i] = t]
                      /\ terminals' = IF create THEN terminals \cup {t} ELSE terminals
                      /\ nextTerm' = IF create THEN nextTerm + 1 ELSE nextTerm
                      /\ focused' = IF t \in terminals' THEN t ELSE focused
                      /\ activeTerminal' = IF reported THEN t ELSE activeTerminal
                      /\ calls' = [calls EXCEPT ![i] = @ \o
                            (IF create THEN << Call("createTerminal", <<"AI CLI">>) >>
                             ELSE <<>>) \o
                            << Call("terminal.show", t), Call("showQuickPick", <<>>) >>]
                      /\ child' = [child EXCEPT ![i] = <<>>]
                      /\ UNCHANGED query
    /\ UNCHANGED sent

\* Mutant of afterQuickPick: the loop awaits after each sendText, so that the
\* rest of the selection (kept in options) is sent in later jobs.
afterQuickPickAwaitsEachSend(i, m) ==
    /\ pc[i] \in {"showQuickPick", "await79"}
    /\ \E dismissed \in BOOLEAN, p \in Picks(Len(options[i]), m) :
          LET first == pc[i] = "showQuickPick"
              sel == IF ~first THEN Arr(options[i])
                     ELSE IF dismissed THEN Undefined ELSE ItemsAt(options[i], p)
              items == IF NothingSelected(sel) THEN <<>> ELSE sel.value
              run == Dispatch(IF items = <<>> THEN sel ELSE Arr(<<Head(items)>>),
                              commands[i].commands.value)
              rest == IF items = <<>> THEN <<>> ELSE Tail(items)
              new == [k \in 1..Len(run.texts) |->
                        [term |-> SendTarget(i), inv |-> i,
                         index |-> run.texts[k].index, text |-> run.texts[k].text]]
          IN
          /\ dismissed \/ ~first => p = <<>>
          /\ ~first => ~dismissed
          /\ last' = IF first
                     THEN [inv |-> i, api |-> "showQuickPick", result |-> sel,
                           picked |-> p, list |-> commands[i].commands.value]
                     ELSE last
          /\ sent' = sent \o new
          /\ IF run.threw
             THEN Finish(i, "catch83", Caught(TypeErrorMessage))
             ELSE IF rest = <<>>
             THEN Finish(i, IF run.returned THEN "return74" ELSE "end80", <<>>)
             ELSE /\ pc' = [pc EXCEPT ![i] = "await79"]
                  /\ options' = [options EXCEPT ![i] = rest]
                  /\ UNCHANGED <<calls, query, commands, terminal, child>>
    /\ UNCHANGED <<terminals, activeTerminal, focused, nextTerm>>

\* The multi-select prompt resolves (dismissed, or confirmed with the entries
\* at positions p): nothing picked ends the workflow, else the loop hands each
\* picked entry's command to terminal.sendText.
afterQuickPick(i, m) ==
    /\ pc[i] = "showQuickPick"
    /\ \E dismissed \in BOOLEAN, p \in Picks(Len(options[i]), m) :
          LET sel == IF dismissed THEN Undefined ELSE ItemsAt(options[i], p)
              run == Dispatch(sel, commands[i].commands.value)
              new == [k \in 1..Len(run.texts) |->
                        [term |-> SendTarget(i), inv |-> i,
                         index |-> run.texts[k].index, text |-> run.texts[k].text]]
          IN
          /\ dismissed => p = <<>>
          /\ last' = [inv |-> i, api |-> "showQuickPick", result |-> sel,
                      picked |-> p, list |-> commands[i].commands.value]
          /\ sent' = sent \o new
          /\ IF run.threw
             THEN Finish(i, "catch83", Caught(TypeErrorMessage))
             ELSE Finish(i, IF run.returned THEN "return74" ELSE "end80", <<>>)
    /\ UNCHANGED <<terminals, activeTerminal, focused, nextTerm>>

\* The workflows alone, in a window whose terminals the user leaves alone and
\* whose host reports the active terminal before the next job runs.
Next ==
    \/ \E i \in Inv : executeCommand(i)
    \/ \E i \in Inv : afterInputBox(i, QueryInputs)
    \/ \E i \in Inv : afterGenerate(i, ExecResults(Docs), TRUE)
    \/ \E i \in Inv : afterQuickPick(i, LongLen)

Spec == Init /\ [][Next]_vars

\* One workflow whose generator returns long commands lists, of which the
\* user picks a few.
NextLabel ==
    \/ executeCommand(1)
    \/ afterInputBox(1, {Str(<<"l", "s">>)})
    \/ afterGenerate(1, ExecResults(LongDocs), TRUE)
    \/ afterQuickPick(1, MaxPickLong)

SpecLabel == Init /\ [][NextLabel]_vars

(***************************************************************************)
(* The window around the workflows.  The user focuses and closes the       *)
(* terminals; the host tells the extension which terminal is active in a   *)
(* message of its own, so that vscode.window.activeTerminal lags behind    *)
(* the window until acceptActiveTerminalChanged has run.                   *)
(***************************************************************************)
acceptActiveTerminalChanged ==
    /\ activeTerminal # focused
    /\ activeTerminal' = focused
    /\ UNCHANGED <<pc, query, commands, options, terminal, child, terminals,
                   focused, nextTerm, sent, calls, last>>

userFocusesTerminal ==
    /\ \E t \in terminals \ {focused} : focused' = t
    /\ UNCHANGED <<pc, query, commands, options, terminal, child, terminals,
                   activeTerminal, nextTerm, sent, calls, last>>

userClosesTerminal ==
    /\ \E t \in terminals :
          /\ terminals' = terminals \ {t}
          /\ focused' \in IF focused # t THEN {focused}
                          ELSE IF terminals' = {} THEN {0} ELSE terminals'
    /\ UNCHANGED <<pc, query, commands, options, terminal, child,
                   activeTerminal, nextTerm, sent, calls, last>>

\* What the generator returns in the window model: a list of two commands.
HostResults ==
    {r \in ExecResults({Doc(Undefined, Arr(ListA(2)))}) : r.code = 0 /\ r.stdout.json}

\* Overlapping workflows in a window the user acts on.
NextHost ==
    \/ \E i \in Inv : executeCommand(i)
    \/ \E i \in Inv : afterInputBox(i, {Str(<<"l", "s">>)})
    \/ \E i \in Inv : afterGenerate(i, HostResults, FALSE)
    \/ \E i \in Inv : afterQuickPick(i, LongLen)
    \/ acceptActiveTerminalChanged
    \/ userFocusesTerminal
    \/ userClosesTerminal

SpecHost == Init /\ [][NextHost]_vars

(***************************************************************************)
(* The workflows under the scheduling the code relies on: the user answers *)
(* or dismisses every prompt that is open and every generator process      *)
(* exits, so that the continuation of each pending await is run at last.   *)
(* Nothing makes the user run the command.                                 *)
(***************************************************************************)
LiveDocs ==
    {Doc(Str(NoCommandFound), Undefined), Doc(Str(<<"API key invalid">>), Undefined),
     Doc(Undefined, Arr(<<>>)), Doc(Undefined, Arr(ListA(1)))}

NextLive ==
    \/ \E i \in Inv : executeCommand(i)
    \/ \E i \in Inv : afterInputBox(i, QueryInputs)
    \/ \E i \in Inv : afterGenerate(i, ExecResults(LiveDocs), TRUE)
    \/ \E i \in Inv : afterQuickPick(i, LongLen)

SpecLive ==
    /\ Init /\ [][NextLive]_vars
    /\ \A i \in Inv : WF_vars(afterInputBox(i, QueryInputs))
    /\ \A i \in Inv : WF_vars(afterGenerate(i, ExecResults(LiveDocs), TRUE))
    /\ \A i \in Inv : WF_vars(afterQuickPick(i, LongLen))

(***************************************************************************)
(* Vocabulary of the properties.                                           *)
(***************************************************************************)
\* The submissions of invocation i, in order.
SentBy(i) == SelectSeq(sent, LAMBDA e : e.inv = i)

\* Whether invocation i has called the host API `api`.
Made(i, api) == \E k \in 1..Len(calls[i]) : calls[i][k].api = api

\* The notices invocation i has shown, in order.
IsNotice(c) == c.api \in {"showInformationMessage", "showErrorMessage"}
Notices(i) == SelectSeq(calls[i], IsNotice)

\* Whether text t occurs in text s unchanged (as a contiguous run).
Contains(s, t) ==
    \E k \in 0..(Len(s) - Len(t)) : SubSeq(s, k + 1, k + Len(t)) = t

\* The result just delivered is the answer to the input box, the exit of the
\* generator, or the answer to the multi-select prompt.
AfterInput == last.api = "showInputBox"
AfterExec == last.api = "exec"
AfterPick == last.api = "showQuickPick"

\* The texts, and the 0-based indices, of a sequence of submissions.
Texts(es) == [k \in 1..Len(es) |-> es[k].text]
Indices(es) == [k \in 1..Len(es) |-> es[k].index]

(***************************************************************************)
(* C1: a command text reaches terminal.sendText only once the multi-select *)
(* prompt of the same invocation has been confirmed, and only when its     *)
(* entry is one of the entries picked: an invocation that is not past its  *)
(* prompt has submitted nothing, a dismissed prompt submits nothing, and   *)
(* every submission made on a confirmed prompt is the command of a picked  *)
(* position.                                                               *)
(***************************************************************************)
C1_OnlySelectedAfterConfirm ==
    /\ \A i \in Inv : pc[i] \notin {"end80", "catch83"} => SentBy(i) = <<>>
    /\ last.api \in {"executeCommand", "showInputBox", "exec"} /\ last.inv \in Inv
          => SentBy(last.inv) = <<>>
    /\ AfterPick =>
          /\ last.result = Undefined => SentBy(last.inv) = <<>>
          /\ \A k \in 1..Len(SentBy(last.inv)) :
                \E j \in 1..Len(last.picked) :
                    /\ SentBy(last.inv)[k].index + 1 = last.picked[j]
                    /\ SentBy(last.inv)[k].text = last.list[last.picked[j]].command

\* One of two entries is picked and only its command has been submitted.
C1_Witness ==
    /\ AfterPick
    /\ Len(last.list) = 2
    /\ last.picked = <<2>>
    /\ Texts(SentBy(last.inv)) = <<last.list[2].command>>

(***************************************************************************)
(* C2: when the input box is dismissed or answered with the empty string   *)
(* the workflow ends there, having made no host call but the input box     *)
(* itself: no progress indicator, no generator process, no notice, no      *)
(* prompt, no terminal created or shown, nothing submitted.                *)
(***************************************************************************)
C2_EmptyInputNoEffects ==
    /\ AfterInput /\ (last.result = Undefined \/ last.result = Str(<<>>))
          => pc[last.inv] = "return22"
    /\ \A i \in Inv :
          pc[i] = "return22" =>
              /\ calls[i] = << Call("showInputBox", <<>>) >>
              /\ child[i] = <<>>
              /\ SentBy(i) = <<>>

\* The empty string was entered while another invocation has its terminal.
C2_Witness ==
    /\ AfterInput
    /\ last.result = Str(<<>>)
    /\ pc[last.inv] = "return22"
    /\ terminals # {}

(***************************************************************************)
(* C3: on a confirmed, non-empty selection the texts submitted are exactly *)
(* the command fields of the picked candidates, one submission per picked  *)
(* entry and nothing else: no index prefix, no description, no safety      *)
(* label, no notice.                                                       *)
(***************************************************************************)
C3_ExactlySelectedCommands ==
    AfterPick /\ last.picked # <<>> =>
        /\ Texts(SentBy(last.inv)) =
              [k \in 1..Len(last.picked) |-> last.list[last.picked[k]].command]
        /\ pc[last.inv] = "end80"
        /\ Notices(last.inv) = <<>>

\* Scenario A: the list holds only `docker ps -a`, entry 1 is picked, and the
\* terminal has received exactly that text.
C3_Witness ==
    /\ AfterPick
    /\ last.list = <<DockerPs>>
    /\ last.picked = <<1>>
    /\ Texts(SentBy(last.inv)) = << <<"docker ps -a">> >>

(***************************************************************************)
(* C4: the label built for position i, "<i>: <command>", resolves back to  *)
(* candidate c(i) by parsing the integer before the first ':' and          *)
(* subtracting 1, for every length of the list (two-digit positions        *)
(* included), for command texts that contain ':' and digits, and for every *)
(* order in which the entries come back from the prompt.                   *)
(***************************************************************************)
C4_LabelRoundTrip ==
    /\ \A i \in Inv :
          pc[i] = "showQuickPick" =>
              \A k \in 1..Len(options[i]) :
                  /\ SelectedIndex(options[i][k]) = Num(k - 1)
                  /\ ArrayGet(commands[i].commands.value, SelectedIndex(options[i][k]))
                        = commands[i].commands.value[k]
    /\ AfterPick =>
          /\ Len(SentBy(last.inv)) = Len(last.picked)
          /\ \A k \in 1..Len(last.picked) :
                SentBy(last.inv)[k].index = last.picked[k] - 1

\* Entries 11 and 2 of an eleven-element list came back in that order and were
\* resolved to indices 10 and 1; the command at position 2 contains ':' and
\* starts with a digit.
C4_Witness ==
    /\ AfterPick
    /\ Len(last.list) = 11
    /\ last.picked = <<11, 2>>
    /\ Indices(SentBy(last.inv)) = <<10, 1>>
    /\ last.list[2] = SevenZip

(***************************************************************************)
(* C5: the picked commands are submitted in the order of their positions   *)
(* in the candidate list, whatever order the prompt returns the picked     *)
(* entries in.                                                             *)
(***************************************************************************)
C5_ListOrder ==
    AfterPick =>
        \A a, b \in 1..Len(SentBy(last.inv)) :
            a < b => SentBy(last.inv)[a].index < SentBy(last.inv)[b].index

(***************************************************************************)
(* C6: a prompt that is dismissed, or confirmed with no entry picked,      *)
(* submits nothing: both end the workflow at the same return, with no      *)
(* further host call.                                                      *)
(***************************************************************************)
C6_EmptySelectionSubmitsNothing ==
    AfterPick /\ last.picked = <<>> =>
        /\ SentBy(last.inv) = <<>>
        /\ pc[last.inv] = "return74"
        /\ calls[last.inv][Len(calls[last.inv])].api = "showQuickPick"

\* The prompt was confirmed with zero entries while the other invocation has
\* already submitted its commands.
C6_Witness ==
    /\ AfterPick
    /\ last.result = Arr(<<>>)
    /\ SentBy(last.inv) = <<>>
    /\ sent # <<>>

(***************************************************************************)
(* C7, as claimed: dismissing the input box or the multi-select prompt     *)
(* leaves no side effect of the invocation: no command submitted and no    *)
(* terminal created or brought to the foreground by it.                    *)
(***************************************************************************)
C7_DismissalNoSideEffects ==
    (AfterInput \/ AfterPick) /\ last.result = Undefined =>
        /\ SentBy(last.inv) = <<>>
        /\ ~Made(last.inv, "createTerminal")
        /\ ~Made(last.inv, "terminal.show")

(***************************************************************************)
(* C7, amended: dismissing the input box ends the workflow with no side    *)
(* effect at all; dismissing the multi-select prompt ends it with no       *)
(* command submitted and no notice, but the terminal that was acquired and *)
(* brought to the foreground before the prompt was shown stays so.         *)
(***************************************************************************)
C7_DismissalAmended ==
    /\ AfterInput /\ last.result = Undefined =>
          /\ pc[last.inv] = "return22"
          /\ calls[last.inv] = << Call("showInputBox", <<>>) >>
          /\ SentBy(last.inv) = <<>>
    /\ AfterPick /\ last.result = Undefined =>
          /\ pc[last.inv] = "return74"
          /\ SentBy(last.inv) = <<>>
          /\ Notices(last.inv) = <<>>
          /\ Made(last.inv, "terminal.show")
          /\ calls[last.inv][Len(calls[last.inv])].api = "showQuickPick"
          /\ focused \in terminals

\* The prompt was dismissed by the invocation that created the terminal.
C7_Witness ==
    /\ AfterPick
    /\ last.result = Undefined
    /\ Made(last.inv, "createTerminal")
    /\ pc[last.inv] = "return74"

\* The standard output just delivered is the JSON text of a document.
ParsedDoc == last.result.stdout.doc
IsJson == AfterExec /\ last.result.stdout.json

InfoNoCommandFound == Call("showInformationMessage", NoCommandFound)

(***************************************************************************)
(* C8, as claimed: whenever the generator's output is a JSON object whose  *)
(* error field is "No Command Found", the workflow ends with the           *)
(* informational notice "No Command Found" and no error notice, no prompt  *)
(* and no submission, other fields notwithstanding.                        *)
(***************************************************************************)
C8_SentinelAlwaysEmpty ==
    IsJson /\ ParsedDoc.error = Str(NoCommandFound) =>
        /\ pc[last.inv] = "return41"
        /\ Notices(last.inv) = << InfoNoCommandFound >>
        /\ ~Made(last.inv, "showQuickPick")
        /\ SentBy(last.inv) = <<>>

(***************************************************************************)
(* C8, amended: the same, when the generator has exited with status 0 or 1 *)
(* (with any other status the output is not read).                         *)
(***************************************************************************)
C8_SentinelEmptyWhenParsed ==
    IsJson /\ last.result.code \in {0, 1} /\ ParsedDoc.error = Str(NoCommandFound) =>
        /\ pc[last.inv] = "return41"
        /\ Notices(last.inv) = << InfoNoCommandFound >>
        /\ ~Made(last.inv, "showQuickPick")
        /\ SentBy(last.inv) = <<>>

\* Exit status 1, the sentinel together with a non-empty commands list, and
\* the informational notice.
C8_Witness ==
    /\ IsJson
    /\ last.result.code = 1
    /\ ParsedDoc = Doc(Str(NoCommandFound), Arr(ListA(1)))
    /\ Notices(last.inv) = << InfoNoCommandFound >>

(***************************************************************************)
(* C9: whenever the generator's output (read, that is on exit status 0 or  *)
(* 1) is a JSON object with an error field msg other than the sentinel,    *)
(* the empty string included, the workflow ends with one error notice that *)
(* contains msg unchanged, with no prompt and no submission, a commands    *)
(* list notwithstanding.                                                   *)
(***************************************************************************)
C9_OtherErrorIsFailure ==
    IsJson /\ last.result.code \in {0, 1} /\ ParsedDoc.error.kind = "string"
           /\ ParsedDoc.error # Str(NoCommandFound) =>
        /\ pc[last.inv] = "return46"
        /\ Len(Notices(last.inv)) = 1
        /\ Notices(last.inv)[1].api = "showErrorMessage"
        /\ Contains(Notices(last.inv)[1].arg, ParsedDoc.error.value)
        /\ ~Made(last.inv, "showQuickPick")
        /\ SentBy(last.inv) = <<>>

(***************************************************************************)
(* C10: the generator's standard output is read exactly when it exits with *)
(* status 0 or 1: then a JSON document decides the outcome and text that   *)
(* is no JSON is reported as such; on any other status the notice is the   *)
(* process failure with the process's diagnostic, whatever the standard    *)
(* output holds, and no prompt is shown, no terminal is created or shown   *)
(* and nothing is submitted.                                               *)
(***************************************************************************)
C10_ExitStatusDecidesParsing ==
    AfterExec =>
        LET i == last.inv
            r == last.result
        IN  IF r.code \in {0, 1}
            THEN IF r.stdout.json
                 THEN pc[i] \in {"return41", "return46", "return51", "showQuickPick"}
                 ELSE /\ pc[i] = "catch83"
                      /\ Notices(i) = << Call("showErrorMessage",
                            <<"Error: ", "Failed to parse response: ">> \o r.stdout.text) >>
            ELSE /\ pc[i] = "catch83"
                 /\ Len(Notices(i)) = 1
                 /\ Notices(i)[1].api = "showErrorMessage"
                 /\ Contains(Notices(i)[1].arg, <<"Command failed: ">>)
                 /\ Contains(Notices(i)[1].arg, r.stderr)
                 /\ ~Contains(Notices(i)[1].arg, <<"Failed to parse response: ">>)
                 /\ ~Made(i, "showQuickPick")
                 /\ ~Made(i, "createTerminal")
                 /\ ~Made(i, "terminal.show")
                 /\ SentBy(i) = <<>>

\* Scenario C: exit status 2 with "network timeout" on stderr, while the
\* standard output holds a well-formed commands list.
C10_Witness ==
    /\ AfterExec
    /\ last.result.code = 2
    /\ last.result.stderr = <<"network timeout">>
    /\ last.result.stdout = JsonText(Doc(Undefined, Arr(ListA(1))))
    /\ pc[last.inv] = "catch83"
    /\ Contains(Notices(last.inv)[1].arg, <<"network timeout">>)

(***************************************************************************)
(* C11 as stated: whenever the standard output of the generator is not     *)
(* JSON, whatever the exit status, the workflow ends with one error notice *)
(* that carries the raw output unchanged, with no prompt shown and nothing *)
(* submitted.                                                              *)
(***************************************************************************)
C11_MalformedAlways ==
    AfterExec /\ ~last.result.stdout.json =>
        LET i == last.inv
        IN  /\ pc[i] = "catch83"
            /\ Len(Notices(i)) = 1
            /\ Notices(i)[1].api = "showErrorMessage"
            /\ Contains(Notices(i)[1].arg, last.result.stdout.text)
            /\ ~Made(i, "showQuickPick")
            /\ SentBy(i) = <<>>

(***************************************************************************)
(* C11 amended: when the generator exits with status 0 or 1 and its        *)
(* standard output is not JSON, the workflow ends with the one error       *)
(* notice "Error: Failed to parse response: " followed by the raw output   *)
(* unchanged, with no terminal acquired, no prompt shown and nothing       *)
(* submitted.                                                              *)
(***************************************************************************)
C11_MalformedWhenParsed ==
    AfterExec /\ last.result.code \in {0, 1} /\ ~last.result.stdout.json =>
        LET i == last.inv
        IN  /\ pc[i] = "catch83"
            /\ Notices(i) = << Call("showErrorMessage",
                   <<"Error: ">> \o <<"Failed to parse response: ">>
                                \o last.result.stdout.text) >>
            /\ Contains(Notices(i)[1].arg, last.result.stdout.text)
            /\ ~Made(i, "createTerminal")
            /\ ~Made(i, "terminal.show")
            /\ ~Made(i, "showQuickPick")
            /\ SentBy(i) = <<>>

\* Exit status 1 with a standard output that is no JSON: the notice carries it.
C11_Witness ==
    /\ AfterExec
    /\ last.result.code = 1
    /\ last.result.stdout = RawText(<<"oops">>)
    /\ pc[last.inv] = "catch83"
    /\ Contains(Notices(last.inv)[1].arg, <<"oops">>)

(***************************************************************************)
(* Output that parsed (exit status 0 or 1), with no error field and with   *)
(* no commands field or an empty commands list.                            *)
(***************************************************************************)
EmptyResultDelivered ==
    /\ AfterExec
    /\ last.result.code \in {0, 1}
    /\ last.result.stdout.json
    /\ last.result.stdout.doc.error = Undefined
    /\ last.result.stdout.doc.commands \in {Undefined, Arr(<<>>)}

\* Invocation i acquired no terminal, showed no prompt and submitted nothing.
NoTerminalNoPrompt(i) ==
    /\ ~Made(i, "createTerminal")
    /\ ~Made(i, "terminal.show")
    /\ ~Made(i, "showQuickPick")
    /\ SentBy(i) = <<>>

(***************************************************************************)
(* C12 as stated: parsed output with no error field and no (or an empty)   *)
(* commands list is handled exactly like the sentinel: the one notice is   *)
(* the informational "No Command Found", no terminal is created, no prompt *)
(* is shown and nothing is submitted.                                      *)
(***************************************************************************)
C12_EmptyLikeSentinel ==
    EmptyResultDelivered =>
        /\ Notices(last.inv) = << Call("showInformationMessage", NoCommandFound) >>
        /\ NoTerminalNoPrompt(last.inv)

(***************************************************************************)
(* C12 amended: parsed output with no error field and no (or an empty)     *)
(* commands list ends the workflow with the one informational notice       *)
(* "No commands generated", which is not the sentinel's notice; no         *)
(* terminal is created, no prompt is shown and nothing is submitted.       *)
(***************************************************************************)
C12_EmptyOwnNotice ==
    EmptyResultDelivered =>
        /\ pc[last.inv] = "return51"
        /\ Notices(last.inv) =
               << Call("showInformationMessage", <<"No commands generated">>) >>
        /\ NoTerminalNoPrompt(last.inv)

\* The generator printed an empty commands list and the notice was shown.
C12_Witness ==
    /\ EmptyResultDelivered
    /\ last.result.stdout.doc.commands = Arr(<<>>)
    /\ Len(Notices(last.inv)) = 1
    /\ Notices(last.inv)[1].api = "showInformationMessage"

\* String.prototype.trim over the spaces of a text.
RECURSIVE TrimEnd(_)
TrimEnd(s) == IF s # <<>> /\ s[Len(s)] = " " THEN TrimEnd(SubSeq(s, 1, Len(s) - 1)) ELSE s
Trim(s) == TrimEnd(SkipSpaces(s))

(***************************************************************************)
(* C13: the generator is never started with a query that is empty after    *)
(* trimming: a query of white space only ends the workflow at the input    *)
(* box, and every invocation whose generator runs holds a query with a     *)
(* character other than white space.                                       *)
(***************************************************************************)
C13_BlankQueryRejected ==
    /\ AfterInput /\ last.result # Undefined /\ Trim(last.result.value) = <<>>
          => pc[last.inv] = "return22" /\ ~Made(last.inv, "exec")
    /\ \A i \in Inv : pc[i] = "exec" => Trim(query[i].value) # <<>>

(***************************************************************************)
(* The command line as /bin/sh reads it.  exec hands the string to a shell, *)
(* which splits it into commands at an unquoted ";" and each command into  *)
(* words at unquoted blanks; a double quote opens or closes a quoted       *)
(* stretch and is not part of the word.  A word is the sequence of its     *)
(* pieces of text.                                                         *)
(***************************************************************************)
MaxQueryLen == 3
QueryChars == {"a", " ", "\"", ";"}
QueryTexts(n) == UNION {[1..k -> QueryChars] : k \in 1..n}
TypedQueries == {Undefined, Str(<<>>)} \cup {Str(t) : t \in QueryTexts(MaxQueryLen)}

NoWord == [open |-> FALSE, text |-> <<>>]
EndWord(args, word) == IF word.open THEN Append(args, word.text) ELSE args
EndCommand(cmds, args) == IF args # <<>> THEN Append(cmds, args) ELSE cmds

RECURSIVE ShellWords(_, _, _, _, _)
ShellWords(line, cmds, args, word, quoted) ==
    IF line = <<>>
    THEN [commands |-> EndCommand(cmds, EndWord(args, word)), unterminated |-> quoted]
    ELSE LET c == Head(line)
             rest == Tail(line)
             more == [open |-> TRUE, text |-> Append(word.text, c)]
         IN  IF c = "\""
             THEN ShellWords(rest, cmds, args, [word EXCEPT !.open = TRUE], ~quoted)
             ELSE IF quoted
             THEN ShellWords(rest, cmds, args, more, quoted)
             ELSE IF c = " "
             THEN ShellWords(rest, cmds, EndWord(args, word), NoWord, quoted)
             ELSE IF c = ";"
             THEN ShellWords(rest, EndCommand(cmds, EndWord(args, word)), <<>>, NoWord, quoted)
             ELSE ShellWords(rest, cmds, args, more, quoted)

ShellParse(line) == ShellWords(line, <<>>, <<>>, NoWord, FALSE)

\* One invocation, with the queries a user can type over QueryChars.
NextQuery ==
    \/ executeCommand(1)
    \/ afterInputBox(1, TypedQueries)
    \/ afterGenerate(1, ExecResults({Doc(Undefined, Undefined)}), TRUE)

SpecQuery == Init /\ [][NextQuery]_vars

(***************************************************************************)
(* C14: for every non-empty query, double quotes and shell-special         *)
(* characters included, the command line that generateCommands hands to    *)
(* exec is one command of four words: the interpreter, the script path,    *)
(* the raw query as a single argument, and the flag --json-only; no        *)
(* character of the query ends the argument early or adds a word or a      *)
(* command.                                                                *)
(***************************************************************************)
C14_QueryIsOneArgument ==
    \A i \in Inv : pc[i] = "exec" =>
        ShellParse(child[i]) =
            [commands |-> << << <<"python">>, ScriptPath, query[i].value,
                               <<"--json-only">> >> >>,
             unterminated |-> FALSE]

\* The invocations that have called createTerminal.
Creators == {i \in Inv : Made(i, "createTerminal")}

\* No terminal has been closed: every handle ever created is still open.
NoneClosed == terminals = 1..(nextTerm - 1)

(***************************************************************************)
(* C15: in a window whose user never closes a terminal, at most one        *)
(* terminal is ever created, whatever the sequence or overlap of the       *)
(* invocations: two invocations that both reach the success path never     *)
(* each create a terminal of their own.                                    *)
(***************************************************************************)
C15_AtMostOneTerminal ==
    NoneClosed => Cardinality(Creators) <= 1 /\ Cardinality(terminals) <= 1

\* The handle invocation i acquired before its prompt: the one it showed.
Acquired(i) ==
    {calls[i][k].arg : k \in {n \in 1..Len(calls[i]) : calls[i][n].api = "terminal.show"}}

(***************************************************************************)
(* C20: every command an invocation submits goes to one and the same       *)
(* terminal handle, the one it acquired (found active, or created) before  *)
(* its prompt was shown, whatever has happened to the window while the     *)
(* prompt was open: another terminal in the foreground or active, a        *)
(* terminal created by another invocation, the acquired terminal closed.   *)
(***************************************************************************)
C20_OneHandlePerInvocation ==
    \A i \in Inv : \A k \in 1..Len(SentBy(i)) :
        /\ Acquired(i) = {SentBy(i)[k].term}
        /\ SentBy(i)[k].term = SentBy(i)[1].term

\* Two commands have just gone to the handle acquired before the prompt,
\* though by now another invocation has created a terminal of its own, that
\* one is active and in the foreground, and the acquired one is closed.
C20_Witness ==
    /\ AfterPick
    /\ Len(SentBy(last.inv)) = 2
    /\ \E t \in Acquired(last.inv) :
          /\ t \notin terminals
          /\ activeTerminal \notin {0, t}
          /\ focused = activeTerminal
    /\ Cardinality(Creators) = 2

\* The submissions of the invocations other than i, in order.
SentByOthers(i) == SelectSeq(sent, LAMBDA e : e.inv # i)

(***************************************************************************)
(* C16: the submissions of overlapping invocations are never interleaved.  *)
(* Each invocation's commands form one unbroken run of the submissions;    *)
(* the run of the invocation whose prompt resolved last comes after all    *)
(* the others', so that a prompt resolving earlier has all its commands    *)
(* submitted before any of a later one's; and within its run the commands  *)
(* keep the order of the selection the prompt returned.                    *)
(***************************************************************************)
C16_BatchesNotInterleaved ==
    /\ \A a, b, c \in 1..Len(sent) :
          a < b /\ b < c /\ sent[a].inv = sent[c].inv => sent[b].inv = sent[a].inv
    /\ AfterPick =>
          /\ sent = SentByOthers(last.inv) \o SentBy(last.inv)
          /\ Indices(SentBy(last.inv)) = [k \in 1..Len(last.picked) |-> last.picked[k] - 1]

\* The prompts of both invocations were open on the shared terminal; that of
\* invocation 2 resolved first and that of invocation 1 has just resolved: the
\* two commands of 2 come before the two of 1, which are in the order picked.
C16_Witness ==
    /\ AfterPick /\ last.inv = 1 /\ last.picked = <<2, 1>>
    /\ Len(sent) = 4
    /\ sent[1].inv = 2 /\ sent[2].inv = 2
    /\ Indices(SentBy(1)) = <<1, 0>>
    /\ \A k \in 1..4 : sent[k].term = sent[1].term
    /\ Acquired(1) = Acquired(2)
    /\ Made(1, "createTerminal")

\* The state of the per-invocation state machine a workflow position stands
\* for.  The dispatch loop runs within the job that takes the prompt's answer,
\* so Dispatching is passed through inside the step from AwaitingSelection.
StateOf(p) ==
    CASE p = "start" -> "NotInvoked"
      [] p = "showInputBox" -> "AwaitingQuery"
      [] p = "exec" -> "Generating"
      [] p \in {"return41", "return51"} -> "NoCommand"
      [] p \in {"return46", "catch83"} -> "GenerationError"
      [] p = "showQuickPick" -> "AwaitingSelection"
      [] p \in {"return22", "return74", "end80"} -> "Idle"
      [] OTHER -> "Unknown"

StatedTransitions ==
    {<<"NotInvoked", "AwaitingQuery">>, <<"AwaitingQuery", "Generating">>,
     <<"Generating", "NoCommand">>, <<"Generating", "GenerationError">>,
     <<"Generating", "AwaitingSelection">>, <<"AwaitingSelection", "Idle">>}

\* Every step of every invocation is one of the transitions of T.
Follows(T) ==
    \A i \in Inv : pc'[i] # pc[i] => <<StateOf(pc[i]), StateOf(pc'[i])>> \in T

\* Every invocation that has begun reaches a terminal state.
EveryInvocationEnds ==
    \A i \in Inv : (pc[i] # "start") ~>
                       (StateOf(pc[i]) \in {"Idle", "NoCommand", "GenerationError"})

\* An error raised by generateCommands or by the loop ends in the catch
\* clause, which shows it as the one error notice of the invocation.
ErrorsCaught ==
    /\ AfterExec /\ (last.result.code \notin {0, 1} \/ ~last.result.stdout.json)
          => pc[last.inv] = "catch83"
    /\ \A i \in Inv :
          /\ StateOf(pc[i]) # "Unknown"
          /\ pc[i] = "catch83" =>
                /\ Len(Notices(i)) = 1
                /\ Notices(i)[1].api = "showErrorMessage"
                /\ SubSeq(Notices(i)[1].arg, 1, 1) = <<"Error: ">>

(***************************************************************************)
(* C17 as stated: every invocation follows only the transitions            *)
(* AwaitingQuery -> Generating -> {NoCommand, GenerationError,             *)
(* AwaitingSelection} -> Idle (by way of Dispatching or not); when every   *)
(* prompt is answered and every generator exits, every invocation reaches  *)
(* Idle, NoCommand or GenerationError; and every error raised from the     *)
(* start of generation to the end of dispatch is caught and shown as an    *)
(* error notice.                                                           *)
(***************************************************************************)
C17_StatedMachine ==
    /\ [][Follows(StatedTransitions)]_vars
    /\ EveryInvocationEnds
    /\ []ErrorsCaught

(***************************************************************************)
(* C17 amended: the same, with the transition AwaitingQuery -> Idle added, *)
(* which an invocation takes when the input box is dismissed or left       *)
(* empty.                                                                  *)
(***************************************************************************)
C17_MachineWithEmptyInput ==
    /\ [][Follows(StatedTransitions \cup {<<"AwaitingQuery", "Idle">>})]_vars
    /\ EveryInvocationEnds
    /\ []ErrorsCaught

\* One invocation went from the input box straight to Idle, the other ended
\* in the catch clause with the error notice of a failed generator process.
C17_Witness ==
    /\ pc[1] = "return22"
    /\ pc[2] = "catch83"
    /\ Notices(1) = <<>>
    /\ Contains(Notices(2)[1].arg, <<"Command failed: ">>)

(***************************************************************************)
(* C18: the outcomes of one invocation exclude one another.  An invocation *)
(* shows at most one notice; one that has shown a notice has not shown the *)
(* multi-select prompt and has submitted nothing; one that has submitted a *)
(* command has shown no notice.                                            *)
(***************************************************************************)
C18_OutcomesExclusive ==
    \A i \in Inv :
        /\ Len(Notices(i)) <= 1
        /\ Notices(i) # <<>> => ~Made(i, "showQuickPick") /\ SentBy(i) = <<>>
        /\ SentBy(i) # <<>> => Notices(i) = <<>>

\* One invocation has ended with its notice and no prompt, the other has
\* shown the prompt and submitted two commands without any notice.
C18_Witness ==
    /\ pc[1] = "return46" /\ Len(Notices(1)) = 1 /\ ~Made(1, "showQuickPick")
    /\ pc[2] = "end80" /\ Len(SentBy(2)) = 2 /\ Notices(2) = <<>>

\* The generator result r is one of the endings that are not the success
\* path: a process failure, malformed output, the sentinel, a generator
\* error, or no commands.
NotSuccess(r) ==
    \/ r.code \notin {0, 1}
    \/ ~r.stdout.json
    \/ /\ r.code \in {0, 1}
       /\ r.stdout.json
       /\ \/ Truthy(r.stdout.doc.error)
          \/ r.stdout.doc.commands \in {Undefined, Arr(<<>>)}

\* Invocation i has ended before the terminal was looked for.
EndedBeforeTerminal(i) ==
    \/ pc[i] \in {"return22", "return41", "return46", "return51"}
    \/ pc[i] = "catch83" /\ ~Made(i, "showQuickPick")

\* The result just delivered is an empty query or a NotSuccess result.
NotSuccessDelivered ==
    \/ AfterInput /\ ~Truthy(last.result)
    \/ AfterExec /\ NotSuccess(last.result)

(***************************************************************************)
(* C19: a terminal is created or brought to the foreground only on the     *)
(* success path.  An invocation that ends with an empty query, the         *)
(* sentinel, a generator error, a process failure, malformed output or an  *)
(* empty commands list has called neither createTerminal nor               *)
(* terminal.show, and the step in which it ends leaves the set of          *)
(* terminals, the terminal in the foreground and the active terminal as    *)
(* they were.                                                              *)
(***************************************************************************)
C19_TerminalOnlyOnSuccess ==
    /\ [](NotSuccessDelivered => EndedBeforeTerminal(last.inv))
    /\ [](\A i \in Inv :
            /\ EndedBeforeTerminal(i) =>
                  ~Made(i, "createTerminal") /\ ~Made(i, "terminal.show")
            /\ Made(i, "createTerminal") \/ Made(i, "terminal.show") =>
                  Made(i, "showQuickPick"))
    /\ [][\A i \in Inv : pc'[i] # pc[i] /\ EndedBeforeTerminal(i)' =>
              UNCHANGED <<terminals, focused, activeTerminal>>]_vars

\* A terminal acquired by invocation 1 is open and active; invocation 2 has
\* just ended on a generator error and has left it as it was.
C19_Witness ==
    /\ pc[1] = "showQuickPick"
    /\ AfterExec /\ last.inv = 2 /\ NotSuccess(last.result)
    /\ pc[2] = "return46"
    /\ terminals = {1} /\ activeTerminal = 1 /\ focused = 1
    /\ ~Made(2, "terminal.show")

====
